---------------------------- MODULE Spec2Model ----------------------------
(***************************************************************************)
(* Model of the ME-AI challenge-response liveness check:                   *)
(*   src/services/verificationService.ts  VerificationService              *)
(*   src/unnamed/part_000                 the data types                   *)
(*                                                                         *)
(* verificationService.ts holds two definitions of VerificationService:    *)
(* lines 12-133 ("strict") and lines 137-243 ("lenient").  They differ in  *)
(* the minimum pass ratio, the classifier thresholds, the liveness         *)
(* threshold, the wording and number of the audit lines and the token      *)
(* layout.  The variable  service  says which of the two is in use; it is  *)
(* chosen at start-up and never changes.                                   *)
(*                                                                         *)
(* Numbers.  The landmark measurements are normalised JavaScript numbers.  *)
(* The model keeps them as integers in units of 0.00001, so 0.16 is 16000, *)
(* 0.012 is 1200 and the "not detected" sentinel -1 is -100000.  A         *)
(* variance is therefore in units of 1e-10: 0.000000005 is 50 and          *)
(* 0.000000001 is 10.  Ratios are kept as exact fractions count/length     *)
(* and compared by cross-multiplication.  Times are milliseconds.          *)
(***************************************************************************)
EXTENDS Integers, Sequences, FiniteSets

VARIABLES
    service,    \* which VerificationService definition is in use
    now,        \* the clock, Date.now(), in ms
    challenge,  \* the challenge held by the caller, or NoChallenge
    frames,     \* the frame sequence the caller holds
    pc,         \* "idle" before verify has been called on the challenge
                \* held, "returned" after it has returned, "threw" after
                \* a call left by an exception
    result,     \* the VerificationResult returned by the last verify call
    \* the App component (src/App.tsx); challenge and frames above are its
    \* useState cells of the same names, result is handleFinalize's localRes
    state,      \* useState<AppState>: the value of the last render
    countdown,  \* useState(5): the value of the last render
    appResult,  \* the useState cell  result : what is stored and displayed
    timerRef,   \* TRUE while the interval held by timerRef is running
    pending,    \* the state updates queued since the last render
    effects,    \* the effects of the last render that have not run yet
    onFrameRef, \* CameraView's onFrameRef: the  state  its handleFrame saw
    isActiveRef,\* CameraView's isActiveRef
    audit,      \* the external audit call of handleFinalize
    calls       \* generateChallenge and verify calls of the session so far

appVars == <<state, countdown, appResult, timerRef, pending, effects,
             onFrameRef, isActiveRef, audit, calls>>

vars == <<service, now, challenge, frames, pc, result, appVars>>

---------------------------------------------------------------------------
(* Program constants *)

Services == {"strict", "lenient"}

CHALLENGE_EXPIRY == 45000

\* frames.length < 15
MIN_FRAMES == 15

\* MIN_PASS_RATIO, in percent: 0.20 and 0.15
MIN_PASS_RATIO(s) == IF s = "strict" THEN 20 ELSE 15

\* landmarks.hand_nose_dist < 0.16 / 0.20
NOSE_DIST_MAX(s) == IF s = "strict" THEN 16000 ELSE 20000

\* landmarks.mouth_width > 0.075 / 0.07
MOUTH_WIDTH_MIN(s) == IF s = "strict" THEN 7500 ELSE 7000

\* landmarks.brow_distance < 0.025 / 0.03
BROW_DIST_MAX(s) == IF s = "strict" THEN 2500 ELSE 3000

\* landmarks.eye_ratio < 0.012
EYE_RATIO_MAX == 1200

\* variance > 0.000000005 / 0.000000001
VARIANCE_MIN(s) == IF s = "strict" THEN 50 ELSE 10

\* gestureRatio / 0.4, in percent
SCORE_SATURATION == 40

\* the points of a saturated gesture or expression factor
FACTOR_POINTS == 40

\* livenessPassed ? 20 : 0
LIVENESS_POINTS == 20

\* exp: Math.floor(Date.now() / 1000) + 600
TOKEN_LIFETIME == 600

gestures == <<"left_hand_up", "right_hand_up", "touch_nose">>

expressions == <<"smile", "frown", "blink">>

---------------------------------------------------------------------------
(* Bounds of the model *)

\* the longest frame sequence
MaxFrames == 20

\* the longest period of a periodic frame stream
MaxPeriod == 7

\* the clock readings run up to CHALLENGE_EXPIRY + MaxSlack
MaxSlack == 1

\* Math.random() is drawn from 0..MaxRand
MaxRand == 1

---------------------------------------------------------------------------
(* Data types (src/unnamed/part_000) *)

Landmarks(lh, rh, sh, mw, bd, hnd, eye) ==
    [left_hand_y |-> lh, right_hand_y |-> rh, shoulder_y |-> sh,
     mouth_width |-> mw, brow_distance |-> bd, hand_nose_dist |-> hnd,
     eye_ratio |-> eye, timestamp |-> 0]

\* a frame record: the snapshot plus a top-level eye_ratio and timestamp
Frame(eyeTop, lm) == [timestamp |-> 0, eye_ratio |-> eyeTop, landmarks |-> lm]

\* the caller holds no challenge (App: useState<Challenge | null>(null))
NoChallenge == [id |-> "", gesture |-> "", expression |-> "", expiresAt |-> 0]

\* token: undefined, and the early returns that carry no token property
NoToken == [kind |-> "undefined"]

\* placeholder held in  result  while no verify call has returned
NoResult == [success |-> FALSE, score |-> 0, reasons |-> <<>>, token |-> NoToken]


---------------------------------------------------------------------------
(* VerificationService.verify, parameterised by the definition in use (s), *)
(* the clock reading (t) and the Math.random() draw of generateToken (r)   *)

\* the gesture branch of the forEach body
GestureDetected(s, g, lm) ==
    IF g = "left_hand_up"
    THEN lm.left_hand_y > 0 /\ lm.left_hand_y < lm.shoulder_y
    ELSE IF g = "right_hand_up"
    THEN lm.right_hand_y > 0 /\ lm.right_hand_y < lm.shoulder_y
    ELSE IF g = "touch_nose"
    THEN lm.hand_nose_dist < NOSE_DIST_MAX(s)
    ELSE FALSE

\* the expression branch of the forEach body
ExpressionDetected(s, e, lm) ==
    IF e = "smile"
    THEN lm.mouth_width > MOUTH_WIDTH_MIN(s)
    ELSE IF e = "frown"
    THEN lm.brow_distance < BROW_DIST_MAX(s)
    ELSE IF e = "blink"
    THEN lm.eye_ratio < EYE_RATIO_MAX
    ELSE FALSE

\* frames.forEach(...): gesturePassCount after the first k frames
RECURSIVE gesturePassCount(_, _, _, _)
gesturePassCount(s, c, fs, k) ==
    IF k = 0 THEN 0
    ELSE gesturePassCount(s, c, fs, k - 1)
         + (IF GestureDetected(s, c.gesture, fs[k].landmarks) THEN 1 ELSE 0)

\* frames.forEach(...): expressionPassCount after the first k frames
RECURSIVE expressionPassCount(_, _, _, _)
expressionPassCount(s, c, fs, k) ==
    IF k = 0 THEN 0
    ELSE expressionPassCount(s, c, fs, k - 1)
         + (IF ExpressionDetected(s, c.expression, fs[k].landmarks) THEN 1 ELSE 0)

\* mutant: the series is read from the snapshot instead of the frame
earValuesFromLandmarks(fs) == [i \in 1..Len(fs) |-> fs[i].landmarks.eye_ratio]

\* frames.map(f => f.eye_ratio)
earValues(fs) == [i \in 1..Len(fs) |-> fs[i].eye_ratio]

\* data.reduce((a, b) => a + b) over the first k entries
RECURSIVE SumTo(_, _)
SumTo(data, k) == IF k = 0 THEN 0 ELSE SumTo(data, k - 1) + data[k]

\* mutant: the deviations are summed without being squared
RECURSIVE SquaresToUnsquared(_, _, _, _)
SquaresToUnsquared(data, total, n, k) ==
    IF k = 0 THEN 0
    ELSE SquaresToUnsquared(data, total, n, k - 1) + (n * data[k] - total)

\* data.reduce((a, b) => a + Math.pow(b - mean, 2), 0) over the first k
\* entries, with mean = total / n: each term is scaled by n*n to stay integral
RECURSIVE SquaresTo(_, _, _, _)
SquaresTo(data, total, n, k) ==
    IF k = 0 THEN 0
    ELSE SquaresTo(data, total, n, k - 1)
         + (n * data[k] - total) * (n * data[k] - total)

\* data.reduce((a, b) => a + b) has no initial value: on an empty array it
\* throws a TypeError instead of returning a number
ReduceThrows(data) == Len(data) = 0

\* the outcome of a verify call that is left by that exception
TypeError == [thrown |-> "TypeError: Reduce of empty array with no initial value"]

\* calculateVariance as the exact fraction num / den (den = n^3), for a
\* series on which the first reduce does not throw
calculateVariance(data) ==
    LET n == Len(data)
        total == SumTo(data, n)
    IN  [num |-> SquaresTo(data, total, n, n), den |-> n * n * n]

\* variance > 0.000000005 (strict) / 0.000000001 (lenient)
isHumanNoiseDetected(s, fs) ==
    LET v == calculateVariance(earValues(fs))
    IN  v.num > VARIANCE_MIN(s) * v.den

\* mutant: the comparison with MIN_PASS_RATIO is turned round
RatioPassedFlipped(s, count, n) == 100 * count <= MIN_PASS_RATIO(s) * n

\* ratio >= this.MIN_PASS_RATIO, for ratio = count / n
RatioPassed(s, count, n) == 100 * count >= MIN_PASS_RATIO(s) * n

\* mutant: the score is truncated instead of rounded
MathFloor(num, den) == num \div den

\* Math.round of the non-negative fraction num / den.  The exact rounding
\* agrees with the double arithmetic of the code for every count and every
\* stream length up to 23; from 24 frames on a tie such as 12.5 can come out
\* of the doubles one unit in the last place low.
MathRound(num, den) == (2 * num + den) \div (2 * den)

\* mutant: the Math.min cap is missing
FactorPointsUncapped(count, n) == FACTOR_POINTS * 100 * count

\* the value Math.min(ratio / 0.4, 1) * 40 as a fraction over
\* SCORE_SATURATION * n
FactorPoints(count, n) ==
    FACTOR_POINTS * (IF 100 * count < SCORE_SATURATION * n
                     THEN 100 * count ELSE SCORE_SATURATION * n)

\* displayScore
displayScore(gCount, eCount, n, livenessPassed) ==
    MathRound(FactorPoints(gCount, n) + FactorPoints(eCount, n)
                + (IF livenessPassed THEN LIVENESS_POINTS ELSE 0)
                  * SCORE_SATURATION * n,
              SCORE_SATURATION * n)

\* challenge.gesture.replace(/_/g, ' ')
ReplaceUnderscores(g) ==
    IF g = "left_hand_up" THEN "left hand up"
    ELSE IF g = "right_hand_up" THEN "right hand up"
    ELSE IF g = "touch_nose" THEN "touch nose"
    ELSE g

\* An audit line: the fixed wording of the template literal, the name
\* substituted into it ("" when none) and the percentage substituted into
\* it (-1 when none).
Line(text, subject, percent) ==
    [text |-> text, subject |-> subject, percent |-> percent]

TimeoutLine == Line("Protocol timeout: session expired", "", -1)

DensityLine ==
    Line("Data density failure: insufficient biometric stream", "", -1)

GestureLine(s, c, passed, count, n) ==
    IF ~passed
    THEN Line(IF s = "strict"
              THEN "CRITICAL: Mandatory gesture (${}) not detected"
              ELSE "CRITICAL: Mandatory gesture (${}) missing",
              ReplaceUnderscores(c.gesture), -1)
    ELSE Line(IF s = "strict"
              THEN "Gesture sequence verified: ${}% temporal match"
              ELSE "Gesture confirmed: ${}% match",
              "", MathRound(100 * count, n))

ExpressionLine(s, c, passed, count, n) ==
    IF ~passed
    THEN Line(IF s = "strict"
              THEN "CRITICAL: Mandatory expression (${}) not detected"
              ELSE "CRITICAL: Mandatory expression (${}) missing",
              c.expression, -1)
    ELSE Line(IF s = "strict"
              THEN "Expression micro-signature verified: ${}% temporal match"
              ELSE "Expression confirmed: ${}% match",
              "", MathRound(100 * count, n))

LivenessLine(s, passed) ==
    IF ~passed
    THEN Line(IF s = "strict"
              THEN "CRITICAL: Temporal authenticity failed (Static subject suspected)"
              ELSE "CRITICAL: Temporal authenticity failure",
              "", -1)
    ELSE Line(IF s = "strict"
              THEN "Temporal noise verified (Human subject confirmed)"
              ELSE "Temporal authenticity confirmed",
              "", -1)

SummaryLine == Line("All security layers validated successfully", "", -1)

\* the closing line: pushed by the strict definition only
ClosingLines(s, success) ==
    IF s = "strict" /\ success THEN <<SummaryLine>> ELSE <<>>

\* generateToken: btoa is one-to-one, so the token is kept as the values
\* it encodes; r is Math.floor(Math.random() * 0xffffff)
generateToken(s, challengeId, t, r) ==
    IF s = "strict"
    THEN [prefix |-> "MFPOL",
          header |-> [alg |-> "HS256", typ |-> "JWT"],
          payload |-> [sub |-> "biometric_auth", cid |-> challengeId,
                       iat |-> t \div 1000,
                       exp |-> (t \div 1000) + TOKEN_LIFETIME],
          sig |-> r]
    ELSE [prefix |-> "MFPOL", cid |-> challengeId, issued |-> t, sig |-> r]

\* mutant: a challenge counts as expired at expiresAt itself
ExpiredInclusive(c, t) == t >= c.expiresAt

\* Date.now() > challenge.expiresAt
Expired(c, t) == t > c.expiresAt

\* mutant: a stream of exactly 15 frames is rejected too
TooFewFramesInclusive(fs) == Len(fs) <= MIN_FRAMES

\* frames.length < 15
TooFewFrames(fs) == Len(fs) < MIN_FRAMES

\* mutant: the liveness factor is left out of the verdict
VerdictWithoutLiveness(gesturePassed, expressionPassed, livenessPassed) ==
    gesturePassed /\ expressionPassed

\* const success = gesturePassed && expressionPassed && livenessPassed
Verdict(gesturePassed, expressionPassed, livenessPassed) ==
    gesturePassed /\ expressionPassed /\ livenessPassed

\* mutant: a token is issued whatever the verdict
IssueTokenAlways(s, success, c, t, r) == generateToken(s, c.id, t, r)

\* token: success ? this.generateToken(challenge.id) : undefined
IssueToken(s, success, c, t, r) ==
    IF success THEN generateToken(s, c.id, t, r) ELSE NoToken

\* the full evaluation, after both early returns
Evaluate(s, c, fs, t, r) ==
    IF ReduceThrows(earValues(fs)) THEN TypeError ELSE
    LET n == Len(fs)
        gCount == gesturePassCount(s, c, fs, n)
        eCount == expressionPassCount(s, c, fs, n)
        gesturePassed == RatioPassed(s, gCount, n)
        expressionPassed == RatioPassed(s, eCount, n)
        livenessPassed == isHumanNoiseDetected(s, fs)
        success == Verdict(gesturePassed, expressionPassed, livenessPassed)
    IN  [success |-> success,
         score |-> displayScore(gCount, eCount, n, livenessPassed),
         reasons |-> <<GestureLine(s, c, gesturePassed, gCount, n),
                       ExpressionLine(s, c, expressionPassed, eCount, n),
                       LivenessLine(s, livenessPassed)>>
                     \o ClosingLines(s, success),
         token |-> IssueToken(s, success, c, t, r)]

\* mutant: the density check is made before the expiry check
verifyDensityFirst(s, c, fs, t, r) ==
    IF TooFewFrames(fs)
    THEN [success |-> FALSE, score |-> 0, reasons |-> <<DensityLine>>,
          token |-> NoToken]
    ELSE IF Expired(c, t)
    THEN [success |-> FALSE, score |-> 0, reasons |-> <<TimeoutLine>>,
          token |-> NoToken]
    ELSE Evaluate(s, c, fs, t, r)

\* mutant: the density check is missing
verifyWithoutDensityCheck(s, c, fs, t, r) ==
    IF Expired(c, t)
    THEN [success |-> FALSE, score |-> 0, reasons |-> <<TimeoutLine>>,
          token |-> NoToken]
    ELSE Evaluate(s, c, fs, t, r)

verify(s, c, fs, t, r) ==
    IF Expired(c, t)
    THEN [success |-> FALSE, score |-> 0, reasons |-> <<TimeoutLine>>,
          token |-> NoToken]
    ELSE IF TooFewFrames(fs)
    THEN [success |-> FALSE, score |-> 0, reasons |-> <<DensityLine>>,
          token |-> NoToken]
    ELSE Evaluate(s, c, fs, t, r)

---------------------------------------------------------------------------
(* VerificationService.generateChallenge *)

\* Math.random().toString(36).substring(7).toUpperCase(): two of the
\* identifiers it can produce
Ids == {"K3F9A", "ZQ7X2"}

\* the challenge returned when the clock reads t, for the draws id, gi, ei
\* of Math.random() (gi, ei are Math.floor(Math.random() * 3) + 1)
generateChallenge(id, gi, ei, t) ==
    [id |-> id, gesture |-> gestures[gi], expression |-> expressions[ei],
     expiresAt |-> t + CHALLENGE_EXPIRY]

\* every challenge generateChallenge can return when the clock reads t
GeneratedAt(t) ==
    {generateChallenge(id, gi, ei, t) :
        id \in Ids, gi \in 1..Len(gestures), ei \in 1..Len(expressions)}

---------------------------------------------------------------------------
(* Inputs: clock readings and frame streams *)

\* the clock readings of the model: 0, and the instants from the expiry of
\* a challenge generated at 0 onwards
Times == {0} \cup {CHALLENGE_EXPIRY + j : j \in 0..MaxSlack}

\* a subject at rest: no hand detected (-1), neutral face
Rest == Frame(1100, Landmarks(-100000, -100000, 60000, 5000, 4000, 50000, 1100))

\* hand at the nose with the eye closing (0.008), open (0.014), and held at
\* 0.010, 0.01001 and 0.0101
NoseBlink == Frame(800, Landmarks(-100000, -100000, 60000, 5000, 4000, 5000, 800))

NoseOpen == Frame(1400, Landmarks(-100000, -100000, 60000, 5000, 4000, 5000, 1400))

NoseStill == Frame(1000, Landmarks(-100000, -100000, 60000, 5000, 4000, 5000, 1000))

NoseJitter == Frame(1001, Landmarks(-100000, -100000, 60000, 5000, 4000, 5000, 1001))

NoseDrift == Frame(1010, Landmarks(-100000, -100000, 60000, 5000, 4000, 5000, 1010))

\* left hand above the shoulder line, smiling
LeftSmile == Frame(1300, Landmarks(30000, -100000, 60000, 8000, 4000, 50000, 1300))

\* right hand above the shoulder line, frowning
RightFrown == Frame(1250, Landmarks(-100000, 30000, 60000, 5000, 2000, 50000, 1250))

\* every measurement on or next to a threshold: left hand on the shoulder
\* line, right hand at 0, mouth 0.072, brow 0.027, hand-nose 0.18, eye 0.012
Edge == Frame(1200, Landmarks(60000, 0, 60000, 7200, 2700, 18000, 1200))

\* frames whose top-level eye_ratio (0.010) differs from the snapshot's
SplitBlink == Frame(1000, Landmarks(-100000, -100000, 60000, 5000, 4000, 5000, 800))

SplitOpen == Frame(1000, Landmarks(-100000, -100000, 60000, 5000, 4000, 5000, 1400))

\* the pairs of frames a stream is made of
StreamPairs ==
    {<<NoseBlink, NoseOpen>>, <<NoseBlink, Rest>>, <<NoseStill, NoseJitter>>,
     <<NoseStill, NoseDrift>>, <<LeftSmile, Rest>>, <<Rest, LeftSmile>>,
     <<RightFrown, Rest>>, <<Edge, Rest>>, <<SplitBlink, SplitOpen>>}

\* the stream of n frames that shows a in frames 1, 1+p, 1+2p, ... and b in
\* the others
Periodic(n, p, a, b) == [i \in 1..n |-> IF (i - 1) % p = 0 THEN a ELSE b]

\* the stream lengths: empty, 10 (too short), and from one below the
\* minimum up to MaxFrames
FrameCounts == {0, 10} \cup ((MIN_FRAMES - 1)..MaxFrames)

FrameSeqs ==
    {Periodic(n, p, ab[1], ab[2]) :
        n \in FrameCounts, p \in 1..MaxPeriod, ab \in StreamPairs}

\* the streams of the session model: alternating streams, one frame too
\* short and of full length
SessionFrameSeqs ==
    {Periodic(n, 2, ab[1], ab[2]) :
        n \in {MIN_FRAMES - 1, MaxFrames},
        ab \in {<<NoseBlink, NoseOpen>>, <<LeftSmile, Rest>>}}

---------------------------------------------------------------------------
(* The App component: src/App.tsx lines 9-235.  React keeps the value of  *)
(* each useState cell as of the last render; a setter called from a timer, *)
(* a camera callback, an effect or the continuation of an await queues an  *)
(* update, and the next render applies every queued update at once.  The   *)
(* effects of a render run after it is committed and before the next       *)
(* render; timer ticks and camera callbacks can come in between.  A click  *)
(* is rendered, and its effects are run, before the next event is taken.   *)

\* enum AppState
AppStates == {"IDLE", "CHALLENGE", "VERIFYING", "RESULT"}

\* useState(5), setCountdown(5)
COUNTDOWN_START == 5

\* the cell  result  holds null
NoAppResult == [kind |-> "null"]

\* no update is queued
NoPending == [ticks |-> 0, frames |-> <<>>, state |-> "none",
              result |-> [kind |-> "none"]]

\* the state of the component after it is mounted
AppMounted ==
    /\ state = "IDLE"
    /\ countdown = COUNTDOWN_START
    /\ appResult = NoAppResult
    /\ timerRef = FALSE
    /\ pending = NoPending
    /\ effects = "none"
    /\ onFrameRef = "IDLE"
    /\ isActiveRef = FALSE
    /\ audit = "none"
    /\ calls = [generate |-> 0, verify |-> 0]

---------------------------------------------------------------------------
(* Actions *)

\* const c = VerificationService.generateChallenge(): no verify call has
\* been made on the new challenge yet
GenerateChallenge ==
    /\ challenge' \in GeneratedAt(now)
    /\ pc' = "idle"
    /\ UNCHANGED <<service, now, frames, result, appVars>>

\* the clock moves on
Tick ==
    /\ now' \in {t \in Times : t > now}
    /\ UNCHANGED <<service, challenge, frames, pc, result, appVars>>

\* the caller collects a frame stream
Capture ==
    /\ frames' \in SessionFrameSeqs
    /\ UNCHANGED <<service, now, challenge, pc, result, appVars>>

\* result = VerificationService.verify(challenge, frames)
Verify ==
    /\ challenge # NoChallenge
    /\ \E r \in 0..MaxRand :
          LET v == verify(service, challenge, frames, now, r)
          IN  IF v = TypeError
              THEN pc' = "threw" /\ result' = result
              ELSE pc' = "returned" /\ result' = v
    /\ UNCHANGED <<service, now, challenge, frames, appVars>>

---------------------------------------------------------------------------
(* Specifications *)

\* The session: challenges are generated, time passes, streams are
\* collected and verified, in any order.
Init ==
    /\ service \in Services
    /\ now = 0
    /\ challenge = NoChallenge
    /\ frames = <<>>
    /\ pc = "idle"
    /\ result = NoResult
    /\ AppMounted

Next == GenerateChallenge \/ Tick \/ Capture \/ Verify

Spec == Init /\ [][Next]_vars

\* verify as a function: one call on a challenge generated at 0, for every
\* clock reading and every frame stream of the model.
VerifyInit ==
    /\ service \in Services
    /\ now \in Times
    /\ challenge \in GeneratedAt(0)
    /\ frames \in FrameSeqs
    /\ pc = "idle"
    /\ result = NoResult
    /\ AppMounted

VerifyNext == Verify

VerifySpec == VerifyInit /\ [][VerifyNext]_vars

---------------------------------------------------------------------------
(* The App driver *)

\* the longest frame buffer and the most queued ticks or frames of the model
MaxAppFrames == 16

MaxPending == 2

\* line 113: <CameraView> is rendered while
\* (state === CHALLENGE || state === VERIFYING) && challenge
CameraMounted ==
    state \in {"CHALLENGE", "VERIFYING"} /\ challenge # NoChallenge

\* the k-th snapshot the camera delivers: a subject with the hand at the
\* nose who blinks in every other frame
CameraSnapshot(k) ==
    IF k % 2 = 1 THEN NoseBlink.landmarks ELSE NoseOpen.landmarks

\* handleFrame as created by the render that saw  closureState :
\* if (state === CHALLENGE) setFrames(prev => [...prev, {...}])
handleFrame(closureState, lm, queue) ==
    IF closureState = "CHALLENGE"
    THEN Append(queue, Frame(lm.eye_ratio, lm))
    ELSE queue

\* mutant: the countdown is decremented without the floor at 0
CountdownUpdaterUnfloored(prev) == prev - 1

\* the updater of setCountdown: prev <= 1 ? 0 : prev - 1
CountdownUpdater(prev) == IF prev <= 1 THEN 0 ELSE prev - 1

\* the countdown after k queued ticks have been applied
RECURSIVE ApplyTicks(_, _)
ApplyTicks(prev, k) ==
    IF k = 0 THEN prev ELSE ApplyTicks(CountdownUpdater(prev), k - 1)

\* one of the k updaters runs with prev <= 1 and clears the interval
ClearsInterval(prev, k) == \E j \in 0..(k - 1) : ApplyTicks(prev, j) <= 1

\* the outcomes of the audit call, and the aiAudit text each one leaves
AuditOutcomes == {"text", "empty", "throws"}

AuditSummary(outcome) ==
    CASE outcome = "text" -> "The stream is consistent with a live subject."
      [] outcome = "empty" -> "No audit notes recorded."
      [] outcome = "throws" -> "AI Audit skipped: connectivity issue."

\* mutant: the verdict is stored only when the audit returned notes
StoredResultNeedsAudit(localRes, summary) ==
    [success |-> localRes.success /\ summary = AuditSummary("text"),
     score |-> localRes.score, reasons |-> localRes.reasons,
     token |-> localRes.token, aiAudit |-> summary]

\* { ...localRes, aiAudit: aiAuditSummary }
StoredResult(localRes, summary) ==
    [success |-> localRes.success, score |-> localRes.score,
     reasons |-> localRes.reasons, token |-> localRes.token,
     aiAudit |-> summary]

\* startVerification, the click on the button shown while state === IDLE,
\* with the render of its four updates, the mount of the CameraView (whose
\* refs start from the props of that render) and the effects of that render
StartVerification ==
    /\ state = "IDLE"
    /\ pending = NoPending
    /\ effects = "none"
    /\ challenge' \in GeneratedAt(now)
    /\ frames' = <<>>
    /\ countdown' = COUNTDOWN_START
    /\ state' = "CHALLENGE"
    /\ timerRef' = TRUE
    /\ onFrameRef' = "CHALLENGE"
    /\ isActiveRef' = TRUE
    /\ calls' = [generate |-> 1, verify |-> 0]
    /\ pc' = "idle"
    /\ UNCHANGED <<service, now, result, appResult, pending, effects, audit>>

\* the interval fires: setCountdown(prev => ...) is queued
TimerTick ==
    /\ timerRef
    /\ pending.ticks < MaxPending
    /\ pending' = [pending EXCEPT !.ticks = @ + 1]
    /\ UNCHANGED <<service, now, challenge, frames, pc, result, state,
                   countdown, appResult, timerRef, effects, onFrameRef,
                   isActiveRef, audit, calls>>

\* the camera callback of the mounted CameraView: it passes its guard on
\* isActiveRef and hands a snapshot to onFrameRef.current.  A frame still in
\* the two MediaPipe calls when the CameraView is unmounted is dropped.
CameraFrame ==
    /\ CameraMounted
    /\ isActiveRef
    /\ Len(pending.frames) < MaxPending
    /\ Len(frames) + Len(pending.frames) < MaxAppFrames
    /\ pending' =
          [pending EXCEPT !.frames =
              handleFrame(onFrameRef,
                          CameraSnapshot(Len(frames) + Len(@) + 1), @)]
    /\ UNCHANGED <<service, now, challenge, frames, pc, result, state,
                   countdown, appResult, timerRef, effects, onFrameRef,
                   isActiveRef, audit, calls>>

\* a render: every queued update is applied; the effect of lines 38-42
\* is due when countdown or state changed, the effect of CameraView lines
\* 310-313 when state changed (handleFrame and isActive depend on it); a
\* CameraView that is no longer rendered goes with its refs
Render ==
    /\ effects = "none"
    /\ pending # NoPending
    /\ countdown' = ApplyTicks(countdown, pending.ticks)
    /\ timerRef' = (timerRef /\ ~ClearsInterval(countdown, pending.ticks))
    /\ frames' = frames \o pending.frames
    /\ state' = IF pending.state = "none" THEN state ELSE pending.state
    /\ appResult' = IF pending.result = NoPending.result
                    THEN appResult ELSE pending.result
    /\ pending' = NoPending
    /\ effects' = IF state' # state THEN "both"
                  ELSE IF countdown' # countdown THEN "app" ELSE "none"
    /\ IF state' \in {"CHALLENGE", "VERIFYING"}
       THEN UNCHANGED <<onFrameRef, isActiveRef>>
       ELSE onFrameRef' = "IDLE" /\ isActiveRef' = FALSE
    /\ UNCHANGED <<service, now, challenge, pc, result, audit, calls>>

\* handleFinalize up to its await: setState(VERIFYING), the verify call on
\* the challenge and the frames of the render it was created by, and the
\* start of the audit call
HandleFinalize ==
    /\ pending' = [pending EXCEPT !.state = "VERIFYING"]
    /\ IF challenge # NoChallenge
       THEN /\ calls' = [calls EXCEPT !.verify = @ + 1]
            /\ \E r \in 0..MaxRand :
                  LET v == verify(service, challenge, frames, now, r)
                  IN  IF v = TypeError
                      THEN pc' = "threw" /\ UNCHANGED <<result, audit>>
                      ELSE /\ pc' = "returned"
                           /\ result' = v
                           /\ audit' = "pending"
       ELSE UNCHANGED <<pc, result, audit, calls>>

\* the effects of the last render run: CameraView's refs take the
\* handleFrame and the isActive of that render, then the effect of lines
\* 38-42 calls handleFinalize if countdown === 0 && state === CHALLENGE
FlushEffects ==
    /\ effects # "none"
    /\ effects' = "none"
    /\ IF effects = "both" /\ CameraMounted
       THEN onFrameRef' = state /\ isActiveRef' = (state = "CHALLENGE")
       ELSE UNCHANGED <<onFrameRef, isActiveRef>>
    /\ IF countdown = 0 /\ state = "CHALLENGE"
       THEN HandleFinalize
       ELSE UNCHANGED <<pending, pc, result, audit, calls>>
    /\ UNCHANGED <<service, now, challenge, frames, state, countdown,
                   appResult, timerRef>>

\* the audit call settles and handleFinalize runs to its end:
\* setResult({...localRes, aiAudit}) and setState(RESULT) are queued
AuditSettles ==
    /\ audit = "pending"
    /\ \E outcome \in AuditOutcomes :
          /\ audit' = outcome
          /\ pending' =
                [pending EXCEPT
                    !.result = StoredResult(result, AuditSummary(outcome)),
                    !.state = "RESULT"]
    /\ UNCHANGED <<service, now, challenge, frames, pc, result, state,
                   countdown, appResult, timerRef, effects, onFrameRef,
                   isActiveRef, calls>>

\* reset, the click on the button shown while state === RESULT && result,
\* with the render of its four updates; countdown is left as it is
Reset ==
    /\ state = "RESULT"
    /\ appResult # NoAppResult
    /\ pending = NoPending
    /\ effects = "none"
    /\ state' = "IDLE"
    /\ challenge' = NoChallenge
    /\ frames' = <<>>
    /\ appResult' = NoAppResult
    /\ timerRef' = FALSE
    /\ audit' = "none"
    /\ calls' = [generate |-> 0, verify |-> 0]
    /\ pc' = "idle"
    /\ result' = NoResult
    /\ UNCHANGED <<service, now, countdown, pending, effects, onFrameRef,
                   isActiveRef>>

\* The App model: sessions are started, timed, fed by the camera, verified,
\* audited and reset, in any interleaving.  The clock stands still: the
\* countdown puts the verify call 5 s after generateChallenge, within the
\* 45 s of the challenge.
AppInit ==
    /\ service \in Services
    /\ now = 0
    /\ challenge = NoChallenge
    /\ frames = <<>>
    /\ pc = "idle"
    /\ result = NoResult
    /\ AppMounted

AppNext ==
    \/ StartVerification
    \/ TimerTick
    \/ CameraFrame
    \/ Render
    \/ FlushEffects
    \/ AuditSettles
    \/ Reset

AppSpec == AppInit /\ [][AppNext]_vars

---------------------------------------------------------------------------
(* Properties.  C1 to C9 are about verify as a function and are checked    *)
(* under VerifySpec, where now, challenge and frames are the inputs of the *)
(* call that returned result.                                              *)

\* a verify call has returned result
Returned == pc = "returned"

\* the call was made after the deadline of the challenge
CalledExpired == now > challenge.expiresAt

\* the call went through the full evaluation
FullyEvaluated == Returned /\ ~CalledExpired /\ Len(frames) >= 15

\* the number of frames whose snapshot shows the challenge's gesture
GestureFrameCount ==
    Cardinality({i \in 1..Len(frames) :
        GestureDetected(service, challenge.gesture, frames[i].landmarks)})

\* the number of frames whose snapshot shows the challenge's expression
ExpressionFrameCount ==
    Cardinality({i \in 1..Len(frames) :
        ExpressionDetected(service, challenge.expression, frames[i].landmarks)})

\* the population variance of the top-level eye_ratio series exceeds the
\* liveness threshold: variance = (n * sum of squares - square of sum) / n^2
VarianceExceedsThreshold ==
    LET n == Len(frames)
        xs == [i \in 1..n |-> frames[i].eye_ratio]
        sq == [i \in 1..n |-> frames[i].eye_ratio * frames[i].eye_ratio]
    IN  n * SumTo(sq, n) - SumTo(xs, n) * SumTo(xs, n)
            > VARIANCE_MIN(service) * n * n

\* C1: a verify call made when the clock is past challenge.expiresAt
\* returns success = false, score 0, the session-expired line as its only
\* reason and no token, whatever the frames are: also for a stream that is
\* too short (the expiry check comes first) and for a stream that passes.
C1_ExpiredIsRejected ==
    (Returned /\ CalledExpired) =>
        /\ result.success = FALSE
        /\ result.score = 0
        /\ result.reasons = <<TimeoutLine>>
        /\ result.token = NoToken

\* C1 witness: an expired call with an empty stream, which the density
\* check would reject with another reason.
C1_Witness ==
    /\ Returned /\ CalledExpired
    /\ Len(frames) = 0
    /\ result.reasons = <<TimeoutLine>>

\* C2: a verify call with fewer than 15 frames returns success = false,
\* score 0 and no token; when the challenge has not expired its only reason
\* is the insufficient-stream line; a call with exactly 15 frames is not
\* rejected with that line.
C2_TooFewFramesIsRejected ==
    Returned =>
        /\ Len(frames) < 15 =>
              /\ result.success = FALSE
              /\ result.score = 0
              /\ result.token = NoToken
              /\ ~CalledExpired => result.reasons = <<DensityLine>>
        /\ Len(frames) = 15 => result.reasons # <<DensityLine>>

\* C2 witness: 10 frames for an unexpired left-hand-raised + smile
\* challenge, rejected with the insufficient-stream line.
C2_Witness ==
    /\ Returned /\ ~CalledExpired
    /\ challenge.gesture = "left_hand_up" /\ challenge.expression = "smile"
    /\ Len(frames) = 10
    /\ result.reasons = <<DensityLine>>

\* C3: on every return path the token is present if and only if success
\* is true.
C3_TokenIffSuccess ==
    Returned => ((result.token # NoToken) <=> result.success)

\* C3 witness: a successful call, which carries a token.
C3_Witness == Returned /\ result.success /\ result.token # NoToken

\* C4: success is true only when the gesture ratio and the expression ratio
\* both reach the minimum pass ratio and the eye_ratio variance exceeds the
\* liveness threshold; and when verify evaluates the factors (challenge not
\* expired, at least 15 frames) success is true whenever all three hold.
C4_SuccessIffAllFactors ==
    LET n == Len(frames)
        allThree ==
            /\ 100 * GestureFrameCount >= MIN_PASS_RATIO(service) * n
            /\ 100 * ExpressionFrameCount >= MIN_PASS_RATIO(service) * n
            /\ VarianceExceedsThreshold
    IN  /\ (Returned /\ result.success) => allThree
        /\ FullyEvaluated => (allThree => result.success)

\* C4 witness: a full evaluation in which the gesture and the expression
\* factor pass and the liveness factor alone fails, so success is false.
C4_Witness ==
    /\ FullyEvaluated
    /\ 100 * GestureFrameCount >= MIN_PASS_RATIO(service) * Len(frames)
    /\ 100 * ExpressionFrameCount >= MIN_PASS_RATIO(service) * Len(frames)
    /\ ~VarianceExceedsThreshold
    /\ ~result.success

\* C5: the score of every result is an integer from 0 to 100.
C5_ScoreInRange == Returned => result.score \in 0..100

\* C5 witness: a full evaluation in which both ratio factors are above the
\* saturation point and liveness passed: the score is 100, reached by the
\* cap and not exceeded.
C5_Witness ==
    /\ FullyEvaluated
    /\ 100 * GestureFrameCount > SCORE_SATURATION * Len(frames)
    /\ 100 * ExpressionFrameCount > SCORE_SATURATION * Len(frames)
    /\ result.score = 100

\* C6: monotonicity in the gesture pass count.  For the stream length, the
\* expression pass count and the liveness outcome of the evaluated call and
\* any two gesture pass counts g1 <= g2: the ratio g2/n is not below g1/n,
\* the score for g2 is not below the score for g1, and if the gesture factor
\* passes for g1 it passes for g2.  The returned score is the score of the
\* call's own gesture pass count, so it lies between the scores of every
\* smaller and every larger count.
C6_MonotoneInGestureCount ==
    FullyEvaluated =>
        LET n == Len(frames)
            e == ExpressionFrameCount
            live == VarianceExceedsThreshold
        IN  /\ result.score = displayScore(GestureFrameCount, e, n, live)
            /\ \A g1 \in 0..n : \A g2 \in g1..n :
                  /\ g1 * n <= g2 * n
                  /\ displayScore(g1, e, n, live) <= displayScore(g2, e, n, live)
                  /\ RatioPassed(service, g1, n) => RatioPassed(service, g2, n)

\* C6 witness: an evaluated call whose gesture factor passes with a count
\* below the stream length and below the saturation point, so that larger
\* counts exist and change the score.
C6_Witness ==
    /\ FullyEvaluated
    /\ RatioPassed(service, GestureFrameCount, Len(frames))
    /\ 100 * GestureFrameCount < SCORE_SATURATION * Len(frames)
    /\ result.score < displayScore(Len(frames), ExpressionFrameCount,
                                   Len(frames), VarianceExceedsThreshold)

\* the wordings of the audit lines, by factor and outcome
GestureFailureTexts ==
    {"CRITICAL: Mandatory gesture (${}) not detected",
     "CRITICAL: Mandatory gesture (${}) missing"}

GestureConfirmTexts ==
    {"Gesture sequence verified: ${}% temporal match",
     "Gesture confirmed: ${}% match"}

ExpressionFailureTexts ==
    {"CRITICAL: Mandatory expression (${}) not detected",
     "CRITICAL: Mandatory expression (${}) missing"}

ExpressionConfirmTexts ==
    {"Expression micro-signature verified: ${}% temporal match",
     "Expression confirmed: ${}% match"}

LivenessFailureTexts ==
    {"CRITICAL: Temporal authenticity failed (Static subject suspected)",
     "CRITICAL: Temporal authenticity failure"}

LivenessConfirmTexts ==
    {"Temporal noise verified (Human subject confirmed)",
     "Temporal authenticity confirmed"}

\* the first three reasons are the gesture, the expression and the liveness
\* line, each a failure line when its factor failed and a confirmation line
\* when it passed
FactorLinesInOrder ==
    LET n == Len(frames)
    IN  /\ Len(result.reasons) >= 3
        /\ result.reasons[1].text \in
              (IF 100 * GestureFrameCount >= MIN_PASS_RATIO(service) * n
               THEN GestureConfirmTexts ELSE GestureFailureTexts)
        /\ result.reasons[2].text \in
              (IF 100 * ExpressionFrameCount >= MIN_PASS_RATIO(service) * n
               THEN ExpressionConfirmTexts ELSE ExpressionFailureTexts)
        /\ result.reasons[3].text \in
              (IF VarianceExceedsThreshold
               THEN LivenessConfirmTexts ELSE LivenessFailureTexts)

\* C7: when verify evaluates the factors, reasons holds the gesture line,
\* the expression line and the liveness line in that order, followed by the
\* closing "all factors validated" line exactly when success is true: 4
\* lines on success and 3 on failure.
C7_ReasonsLayout ==
    FullyEvaluated =>
        /\ FactorLinesInOrder
        /\ Len(result.reasons) = (IF result.success THEN 4 ELSE 3)
        /\ result.success => result.reasons[Len(result.reasons)] = SummaryLine

\* the 20 frames of scenarios A and B
ScenarioAFrames == Periodic(20, 2, NoseBlink, NoseOpen)

ScenarioBFrames == Periodic(20, 1, NoseStill, NoseStill)

\* an evaluated call on a touch-nose + blink challenge
TouchNoseBlinkCall ==
    /\ FullyEvaluated
    /\ challenge.gesture = "touch_nose"
    /\ challenge.expression = "blink"

\* C8: scenario A.  For an unexpired touch-nose + blink challenge and 20
\* frames with hand_nose_dist 0.05 whose eye_ratio alternates between 0.008
\* and 0.014, verify returns success = true, score 100 and a token.
C8_ScenarioA ==
    (TouchNoseBlinkCall /\ frames = ScenarioAFrames) =>
        /\ result.success
        /\ result.score = 100
        /\ result.token # NoToken

\* C8 witness: the scenario A call has returned.
C8_Witness ==
    TouchNoseBlinkCall /\ frames = ScenarioAFrames /\ result.score = 100

\* all top-level eye_ratio values of the stream are equal
EyeRatioConstant ==
    \A i \in 1..Len(frames) : frames[i].eye_ratio = frames[1].eye_ratio

\* C9: scenario B.  For an unexpired touch-nose + blink challenge and 20
\* frames with hand_nose_dist 0.05 and eye_ratio 0.010 throughout, verify
\* returns success = false and no token, reports the gesture and the
\* expression factor as passed and the liveness factor as failed; and every
\* evaluated stream whose eye_ratio values are all equal fails liveness.
C9_ScenarioB ==
    /\ (TouchNoseBlinkCall /\ frames = ScenarioBFrames) =>
          /\ result.success = FALSE
          /\ result.token = NoToken
          /\ result.reasons[1].text \in GestureConfirmTexts
          /\ result.reasons[2].text \in ExpressionConfirmTexts
          /\ result.reasons[3].text \in LivenessFailureTexts
    /\ (FullyEvaluated /\ EyeRatioConstant) =>
          /\ result.success = FALSE
          /\ result.token = NoToken
          /\ result.reasons[3].text \in LivenessFailureTexts

\* C9 witness: the scenario B call has returned with the liveness failure
\* line.
C9_Witness ==
    /\ TouchNoseBlinkCall /\ frames = ScenarioBFrames
    /\ result.reasons[3].text \in LivenessFailureTexts

---------------------------------------------------------------------------
(* Properties of the session, checked under Spec *)

\* the time a token says it was issued at, in seconds
IssuedAtSeconds(tok) ==
    IF service = "strict" THEN tok.payload.iat ELSE tok.issued \div 1000

\* C10: every challenge returned by generateChallenge has a gesture of the
\* three-element gesture set and an expression of the three-element
\* expression set, each of the 9 combinations can be returned, its expiresAt
\* is the clock reading at creation plus 45000 ms, and a verify call made at
\* a time up to and including expiresAt is not rejected as expired.
C10_ChallengeWellFormed ==
    /\ [](\A g \in {"left_hand_up", "right_hand_up", "touch_nose"} :
            \A e \in {"smile", "frown", "blink"} :
               ENABLED (GenerateChallenge /\ challenge'.gesture = g
                          /\ challenge'.expression = e))
    /\ [][/\ challenge' # challenge =>
                /\ challenge'.gesture \in
                      {"left_hand_up", "right_hand_up", "touch_nose"}
                /\ challenge'.expression \in {"smile", "frown", "blink"}
                /\ challenge'.expiresAt = now + 45000
          /\ ~(/\ now <= challenge.expiresAt
               /\ result'.reasons = <<TimeoutLine>>
               /\ Verify)]_vars

\* C10 witness: a challenge generated at 0 was verified successfully at its
\* expiresAt, 45000: the token was issued in second 45.
C10_Witness ==
    /\ Returned
    /\ challenge.expiresAt = 45000
    /\ now = challenge.expiresAt
    /\ result.success
    /\ IssuedAtSeconds(result.token) = 45


---------------------------------------------------------------------------
(* C11 to C15 *)

\* C11: verify never throws and never fails without saying why: no call,
\* whatever the challenge, the clock and the frames (the empty stream
\* included), is left by an exception, the variance helper is never
\* reached with an empty series, and every result with success = false
\* carries at least one reason.
C11_NeverThrows ==
    /\ pc # "threw"
    /\ (Returned /\ ~CalledExpired /\ ~TooFewFrames(frames))
          => ~ReduceThrows([i \in 1..Len(frames) |-> frames[i].eye_ratio])
    /\ (Returned /\ ~result.success) => Len(result.reasons) >= 1

\* a call on the empty stream, before the deadline, has returned the
\* density refusal
C11_Witness ==
    /\ Returned
    /\ frames = <<>>
    /\ ~CalledExpired
    /\ ~result.success
    /\ result.reasons = <<DensityLine>>

\* the timeout result
TimeoutResult ==
    [success |-> FALSE, score |-> 0, reasons |-> <<TimeoutLine>>,
     token |-> NoToken]

\* C12: timeout is terminal for a challenge.  Once a verify call on the
\* challenge held has returned the timeout result, every step in which the
\* clock does not go backwards and the challenge stays the same leaves the
\* result of the last call on it the timeout result, whatever frames are
\* collected and passed in between; a successful result can only follow
\* the generation of a new challenge.
C12_TimeoutIsTerminal ==
    [][(/\ Returned
        /\ result = TimeoutResult
        /\ now' >= now
        /\ challenge' = challenge)
         => (pc' = "returned" /\ result' = TimeoutResult)]_vars

\* the timeout result was returned for a stream that passes every factor
\* of the challenge held: the same call made at the deadline succeeds
C12_Witness ==
    /\ Returned
    /\ result = TimeoutResult
    /\ CalledExpired
    /\ verify(service, challenge, frames, challenge.expiresAt, 0).success

\* the token carries a validity window: an expiry, later than its issue
\* time by at least a minute and less than an hour
HasValidityWindow(tok) ==
    /\ "payload" \in DOMAIN tok
    /\ {"iat", "exp"} \subseteq DOMAIN tok.payload
    /\ tok.payload.exp > tok.payload.iat
    /\ tok.payload.exp - tok.payload.iat \in 60..3600

\* the challenge identifier the token encodes
TokenChallengeId(tok) ==
    IF "payload" \in DOMAIN tok THEN tok.payload.cid ELSE tok.cid

\* C14: every token issued by a successful verify encodes the identifier
\* of the challenge verified, an issue timestamp read from the clock at
\* verification time, a validity window of a few minutes whose expiry is
\* later than the issue time, and a random suffix.
C14_TokenContents ==
    (Returned /\ result.success) =>
        /\ result.token # NoToken
        /\ TokenChallengeId(result.token) = challenge.id
        /\ IssuedAtSeconds(result.token) = now \div 1000
        /\ HasValidityWindow(result.token)
        /\ result.token.sig \in 0..MaxRand

\* what holds of the definition of lines 12-133: its tokens have all four
C14_StrictTokenContents ==
    service = "strict" => C14_TokenContents

\* what holds of both definitions: identifier, issue time and suffix
C14_CommonTokenContents ==
    (Returned /\ result.success) =>
        /\ TokenChallengeId(result.token) = challenge.id
        /\ IssuedAtSeconds(result.token) = now \div 1000
        /\ result.token.sig \in 0..MaxRand

\* n times the unrounded score of the evaluated call:
\* 40 * min(ratio / 0.4, 1) is min(100 * count / n, 40)
ScoreTimesLength ==
    LET n == Len(frames)
        Min(a, b) == IF a < b THEN a ELSE b
    IN  Min(100 * GestureFrameCount, 40 * n)
          + Min(100 * ExpressionFrameCount, 40 * n)
          + (IF VarianceExceedsThreshold THEN 20 * n ELSE 0)

\* C15: on full evaluation the score is the integer nearest to
\* 40*min(gestureRatio/0.4, 1) + 40*min(expressionRatio/0.4, 1)
\* + (20 if liveness passed, else 0), a half rounded up: score - 1/2 <= the
\* sum < score + 1/2.  Consequently a result whose liveness factor failed
\* has a score of at most 80 and every result with score 100 has
\* success = true (a positive score with success = false is the witness).
C15_ScoreFormula ==
    FullyEvaluated =>
        LET n == Len(frames)
        IN  /\ 2 * result.score * n - n <= 2 * ScoreTimesLength
            /\ 2 * ScoreTimesLength < 2 * result.score * n + n
            /\ ~VarianceExceedsThreshold => result.score <= 80
            /\ result.score = 100 => result.success

\* a full evaluation returned a positive, unrounded-fractional score with
\* success = false
C15_Witness ==
    /\ FullyEvaluated
    /\ result.score > 0
    /\ ~result.success
    /\ ScoreTimesLength % Len(frames) # 0

---------------------------------------------------------------------------
(* C13, C16 and C17 are about the App driver and are checked under AppSpec *)

\* after every step the session has made one generateChallenge call and at
\* most one verify call, exactly one once the state is VERIFYING or RESULT
CallsOncePerSession ==
    /\ calls.verify <= 1
    /\ state # "IDLE" => calls.generate = 1
    /\ state \in {"VERIFYING", "RESULT"} => calls.verify = 1

\* a step that calls verify is taken with countdown 0 in state CHALLENGE,
\* on the challenge generated by the session's startVerification and the
\* frame buffer of the session
VerifyCalledAtZero ==
    calls'.verify > calls.verify =>
        /\ countdown = 0
        /\ state = "CHALLENGE"
        /\ challenge \in GeneratedAt(now)
        /\ \E r \in 0..MaxRand :
              result' = verify(service, challenge, frames, now, r)

\* a step taken once the state has left CHALLENGE appends no frame: none
\* is queued by handleFrame and none is added to the buffer
NoFrameOutsideChallenge ==
    state # "CHALLENGE" =>
        /\ Len(pending'.frames) <= Len(pending.frames)
        /\ Len(frames') <= Len(frames)

\* C13: each session started by startVerification calls generateChallenge
\* once and verify exactly once, when the countdown reaches 0 in state
\* CHALLENGE, with the session's challenge and frames; no second verify
\* call happens under any interleaving of ticks, frame callbacks and
\* renders; and no frame is appended once the state has left CHALLENGE.
C13_OneVerifyPerSession ==
    [][CallsOncePerSession' /\ VerifyCalledAtZero
         /\ NoFrameOutsideChallenge]_vars

\* what holds of the driver: one generateChallenge and one verify call per
\* session, the verify call at countdown 0 in state CHALLENGE
C13_ExactlyOneVerify ==
    [][CallsOncePerSession' /\ VerifyCalledAtZero]_vars

\* a frame handed to a handleFrame that still sees CHALLENGE is queued
\* while the rendered state is VERIFYING
C13_LateFrame ==
    /\ state = "VERIFYING"
    /\ calls.verify = 1
    /\ pending.frames # <<>>

\* the value of the state cell once the queued updates are applied: the
\* argument of the last setState call
AppStateValue == IF pending.state = "none" THEN state ELSE pending.state

\* the value of the result cell once the queued updates are applied
AppResultValue ==
    IF pending.result = NoPending.result THEN appResult ELSE pending.result

\* C16: the audit call can neither change nor block the verdict.  The
\* call can return text, return empty text or throw; whichever it does,
\* the state goes from VERIFYING to RESULT when it settles, a render is
\* then possible, and the result stored (and displayed in state RESULT)
\* has the success, score, reasons and token that verify returned, with
\* the audit text of that outcome.
C16_AuditKeepsVerdict ==
    /\ [](/\ audit = "pending" =>
               \A o \in AuditOutcomes : ENABLED (AuditSettles /\ audit' = o)
          /\ audit \in AuditOutcomes =>
               /\ Returned
               /\ AppStateValue = "RESULT"
               /\ AppResultValue.success = result.success
               /\ AppResultValue.score = result.score
               /\ AppResultValue.reasons = result.reasons
               /\ AppResultValue.token = result.token
               /\ AppResultValue.aiAudit = AuditSummary(audit)
               /\ state # "RESULT" => ENABLED Render \/ ENABLED FlushEffects
          /\ state = "RESULT" =>
               audit \in AuditOutcomes /\ appResult = AppResultValue)
    /\ [][/\ calls'.verify > calls.verify =>
               \E r \in 0..MaxRand :
                  result' = verify(service, challenge, frames, now, r)
          /\ (audit = "pending" /\ audit' # audit) =>
               /\ audit' \in AuditOutcomes
               /\ AppStateValue = "VERIFYING"
               /\ AppStateValue' = "RESULT"
               /\ result' = result]_vars

\* the audit call threw after a successful verify: the session shows
\* RESULT with success, the token and the "skipped" audit text
C16_Witness ==
    /\ state = "RESULT"
    /\ audit = "throws"
    /\ appResult.success
    /\ appResult.score = 100
    /\ appResult.token = result.token
    /\ appResult.token # NoToken
    /\ appResult.aiAudit = "AI Audit skipped: connectivity issue."

=============================================================================
